---- MODULE Spec2Model ----
(***************************************************************************)
(* Model of the fakeroot subsystem of the unshare crate:                   *)
(*   - the fakeroot fields of Config (src/src/config.rs),                  *)
(*   - the registration methods of Command (src/src/fakeroot.rs 17-127),   *)
(*   - the syscall sequence of build_fakeroot (src/src/fakeroot.rs         *)
(*     130-219), every libc call being one step whose result the kernel    *)
(*     chooses.                                                            *)
(* Strings are sequences of one-character strings, so that format! and     *)
(* Path::parent are computed character by character.  "/s" and "/t" stand  *)
(* for staging bases such as "/sandbox", "/b" for "/bin", "/d/u" for       *)
(* "/dev/urandom".                                                         *)
(***************************************************************************)
EXTENDS Integers, Sequences, FiniteSets, TLC

VARIABLES
    fake_root_base,     \* Config.fake_root_base : Option<CString>
    fake_root_mounts,   \* Config.fake_root_mounts : Vec<FakeRootMount>
    fake_root_mkdirs,   \* Config.fake_root_mkdirs : Vec<CString>
    fake_root_touchs,   \* Config.fake_root_touchs : Vec<CString>
    namespaces,         \* Config.namespaces : CloneFlags
    ncalls,             \* number of Command methods called so far
    lastCall,           \* the Command method called last, with its arguments
    panicked,           \* an expect() of a registration method has panicked
    pc,                 \* position of the child inside build_fakeroot
    idx,                \* index of the running for loop of build_fakeroot
    log,                \* the libc calls issued so far, in order
    lastRes,            \* whether the libc call issued last succeeded
    result,             \* return value of build_fakeroot : Option<bool>
    root,               \* what the child's root directory is
    cwd,                \* what the child's working directory is
    attached,           \* indices of fake_root_mounts mounted at their staging path
    remounted           \* indices of fake_root_mounts remounted read-only

cfg == <<fake_root_base, fake_root_mounts, fake_root_mkdirs, fake_root_touchs, namespaces>>
api == <<ncalls, lastCall, panicked>>
child == <<pc, idx, log, lastRes, result, root, cwd, attached, remounted>>
vars == <<fake_root_base, fake_root_mounts, fake_root_mkdirs, fake_root_touchs,
          namespaces, ncalls, lastCall, panicked, pc, idx, log, lastRes, result,
          root, cwd, attached, remounted>>

(***************************************************************************)
(* Bounds and inputs.                                                      *)
(***************************************************************************)
MaxCalls == 3

None == <<>>
Some(x) == <<x>>

Bases == { <<"/", "s">>, <<"/", "t">> }
Dsts == { <<"/">>, <<"/", "b">>, <<"/", "d">>, <<"/", "d", "/", "u">> }
Srcs == { <<"/", "h">> }
FsTypes == { <<"p", "r", "o", "c">> }
Namespace == { "Mount", "Pid", "User" }

(***************************************************************************)
(* std::path::Path on Unix, on character sequences.                        *)
(***************************************************************************)
HasRoot(p) == Len(p) > 0 /\ p[1] = "/"

RECURSIVE TrimRight(_, _)
TrimRight(p, min) ==
    IF Len(p) > min /\ p[Len(p)] = "/"
    THEN TrimRight(SubSeq(p, 1, Len(p) - 1), min)
    ELSE p

RECURSIVE DropLast(_)
DropLast(p) ==
    IF Len(p) > 0 /\ p[Len(p)] # "/"
    THEN DropLast(SubSeq(p, 1, Len(p) - 1))
    ELSE p

\* Path::components compared, as PartialEq for Path does: repeated and
\* trailing separators do not count.
RECURSIVE Squeeze(_)
Squeeze(p) ==
    IF Len(p) < 2 THEN p
    ELSE IF p[1] = "/" /\ p[2] = "/" THEN Squeeze(Tail(p))
    ELSE <<p[1]>> \o Squeeze(Tail(p))

PathEq(a, b) ==
    TrimRight(Squeeze(a), IF HasRoot(a) THEN 1 ELSE 0)
        = TrimRight(Squeeze(b), IF HasRoot(b) THEN 1 ELSE 0)

\* Path::parent: None for the root and for the empty path, otherwise the path
\* without its last component.
Parent(p) ==
    LET min == IF HasRoot(p) THEN 1 ELSE 0
        t == TrimRight(p, min)
    IN  IF Len(t) = min THEN None ELSE Some(TrimRight(DropLast(t), min))

\* format!("{}/{}", base, dst)
Format_NoSeparator(base_, dst) == base_ \o dst

Format(base_, dst) == base_ \o <<"/">> \o dst

(***************************************************************************)
(* Command: the registration methods.                                      *)
(***************************************************************************)
FakeRootMount(mountpoint, mountpoint_outer, src, readonly, is_special_fs) ==
    [mountpoint |-> mountpoint, mountpoint_outer |-> mountpoint_outer,
     src |-> src, readonly |-> readonly, is_special_fs |-> is_special_fs]

Call(op, src, dst, readonly) ==
    [op |-> op, src |-> src, dst |-> dst, readonly |-> readonly]

\* Command::unshare: adds the namespaces to the set to create.
unshare(set, ns) == set \cup ns

\* The paths fakeroot_mkdir pushes to fake_root_mkdirs, in the order of the pushes.
RECURSIVE fakeroot_mkdir_ChildFirst(_, _)
fakeroot_mkdir_ChildFirst(base_, dir) ==
    LET parent_dir == Parent(dir)
    IN  IF parent_dir # None /\ ~PathEq(dir, parent_dir[1])
        THEN <<Format(base_, dir)>> \o fakeroot_mkdir_ChildFirst(base_, parent_dir[1])
        ELSE <<>>

RECURSIVE fakeroot_mkdir(_, _)
fakeroot_mkdir(base_, dir) ==
    LET parent_dir == Parent(dir)
    IN  IF parent_dir # None /\ ~PathEq(dir, parent_dir[1])
        THEN fakeroot_mkdir(base_, parent_dir[1]) \o <<Format(base_, dir)>>
        ELSE <<>>

InParent == pc = "parent" /\ ~panicked /\ ncalls < MaxCalls

fakeroot_enable_NoUnshare(base_) ==
    /\ InParent
    /\ fake_root_base' = Some(base_)
    /\ ncalls' = ncalls + 1
    /\ lastCall' = Call("enable", None, base_, FALSE)
    /\ UNCHANGED <<namespaces, fake_root_mounts, fake_root_mkdirs, fake_root_touchs,
                   panicked, child>>

fakeroot_enable(base_) ==
    /\ InParent
    /\ namespaces' = unshare(namespaces, {"Mount"})
    /\ fake_root_base' = Some(base_)
    /\ ncalls' = ncalls + 1
    /\ lastCall' = Call("enable", None, base_, FALSE)
    /\ UNCHANGED <<fake_root_mounts, fake_root_mkdirs, fake_root_touchs, panicked, child>>

\* The expect("call fakeroot_enable() first!") of the three registration
\* methods panicking: nothing of the Command has been touched yet.
ExpectPanics(op, src, dst, readonly) ==
    /\ panicked' = TRUE
    /\ ncalls' = ncalls + 1
    /\ lastCall' = Call(op, src, dst, readonly)
    /\ UNCHANGED <<cfg, child>>

fakeroot_mount_NoExpect(src, dst, readonly) ==
    /\ InParent
    /\ LET base_ == IF fake_root_base = None THEN <<>> ELSE fake_root_base[1]
       IN  /\ fake_root_mkdirs' = fake_root_mkdirs \o fakeroot_mkdir(base_, dst)
           /\ fake_root_mounts' = Append(fake_root_mounts,
                  FakeRootMount(dst, Format(base_, dst), src, readonly, FALSE))
    /\ ncalls' = ncalls + 1
    /\ lastCall' = Call("mount", src, dst, readonly)
    /\ UNCHANGED <<fake_root_base, fake_root_touchs, namespaces, panicked, child>>

fakeroot_mount_ParentOnly(src, dst, readonly) ==
    /\ InParent
    /\ IF fake_root_base = None
       THEN ExpectPanics("mount", src, dst, readonly)
       ELSE LET base_ == fake_root_base[1]
                parent_dir == Parent(dst)
            IN  /\ fake_root_mkdirs' = fake_root_mkdirs \o
                       (IF parent_dir = None THEN <<>>
                        ELSE fakeroot_mkdir(base_, parent_dir[1]))
                /\ fake_root_mounts' = Append(fake_root_mounts,
                       FakeRootMount(dst, Format(base_, dst), src, readonly, FALSE))
                /\ ncalls' = ncalls + 1
                /\ lastCall' = Call("mount", src, dst, readonly)
                /\ UNCHANGED <<fake_root_base, fake_root_touchs, namespaces, panicked, child>>

fakeroot_mount(src, dst, readonly) ==
    /\ InParent
    /\ IF fake_root_base = None
       THEN ExpectPanics("mount", src, dst, readonly)
       ELSE LET base_ == fake_root_base[1]
            IN  /\ fake_root_mkdirs' = fake_root_mkdirs \o fakeroot_mkdir(base_, dst)
                /\ fake_root_mounts' = Append(fake_root_mounts,
                       FakeRootMount(dst, Format(base_, dst), src, readonly, FALSE))
                /\ ncalls' = ncalls + 1
                /\ lastCall' = Call("mount", src, dst, readonly)
                /\ UNCHANGED <<fake_root_base, fake_root_touchs, namespaces, panicked, child>>

fakeroot_mount_file_NoTouch(src, dst, readonly) ==
    /\ InParent
    /\ IF fake_root_base = None
       THEN ExpectPanics("mount_file", src, dst, readonly)
       ELSE LET base_ == fake_root_base[1]
                parent_dir == Parent(dst)
            IN  /\ fake_root_mkdirs' = fake_root_mkdirs \o
                       (IF parent_dir = None THEN <<>>
                        ELSE fakeroot_mkdir(base_, parent_dir[1]))
                /\ fake_root_mounts' = Append(fake_root_mounts,
                       FakeRootMount(dst, Format(base_, dst), src, readonly, FALSE))
                /\ ncalls' = ncalls + 1
                /\ lastCall' = Call("mount_file", src, dst, readonly)
                /\ UNCHANGED <<fake_root_base, fake_root_touchs, namespaces, panicked, child>>

fakeroot_mount_file(src, dst, readonly) ==
    /\ InParent
    /\ IF fake_root_base = None
       THEN ExpectPanics("mount_file", src, dst, readonly)
       ELSE LET base_ == fake_root_base[1]
                parent_dir == Parent(dst)
            IN  /\ fake_root_mkdirs' = fake_root_mkdirs \o
                       (IF parent_dir = None THEN <<>>
                        ELSE fakeroot_mkdir(base_, parent_dir[1]))
                /\ fake_root_touchs' = Append(fake_root_touchs, Format(base_, dst))
                /\ fake_root_mounts' = Append(fake_root_mounts,
                       FakeRootMount(dst, Format(base_, dst), src, readonly, FALSE))
                /\ ncalls' = ncalls + 1
                /\ lastCall' = Call("mount_file", src, dst, readonly)
                /\ UNCHANGED <<fake_root_base, namespaces, panicked, child>>

fakeroot_filesystem_Readonly(fstype, dst) ==
    /\ InParent
    /\ IF fake_root_base = None
       THEN ExpectPanics("filesystem", fstype, dst, FALSE)
       ELSE LET base_ == fake_root_base[1]
            IN  /\ fake_root_mkdirs' = fake_root_mkdirs \o fakeroot_mkdir(base_, dst)
                /\ fake_root_mounts' = Append(fake_root_mounts,
                       FakeRootMount(dst, Format(base_, dst), fstype, TRUE, TRUE))
                /\ ncalls' = ncalls + 1
                /\ lastCall' = Call("filesystem", fstype, dst, FALSE)
                /\ UNCHANGED <<fake_root_base, fake_root_touchs, namespaces, panicked, child>>

fakeroot_filesystem_Touch(fstype, dst) ==
    /\ InParent
    /\ IF fake_root_base = None
       THEN ExpectPanics("filesystem", fstype, dst, FALSE)
       ELSE LET base_ == fake_root_base[1]
            IN  /\ fake_root_mkdirs' = fake_root_mkdirs \o fakeroot_mkdir(base_, dst)
                /\ fake_root_touchs' = Append(fake_root_touchs, Format(base_, dst))
                /\ fake_root_mounts' = Append(fake_root_mounts,
                       FakeRootMount(dst, Format(base_, dst), fstype, FALSE, TRUE))
                /\ ncalls' = ncalls + 1
                /\ lastCall' = Call("filesystem", fstype, dst, FALSE)
                /\ UNCHANGED <<fake_root_base, namespaces, panicked, child>>

fakeroot_filesystem(fstype, dst) ==
    /\ InParent
    /\ IF fake_root_base = None
       THEN ExpectPanics("filesystem", fstype, dst, FALSE)
       ELSE LET base_ == fake_root_base[1]
            IN  /\ fake_root_mkdirs' = fake_root_mkdirs \o fakeroot_mkdir(base_, dst)
                /\ fake_root_mounts' = Append(fake_root_mounts,
                       FakeRootMount(dst, Format(base_, dst), fstype, FALSE, TRUE))
                /\ ncalls' = ncalls + 1
                /\ lastCall' = Call("filesystem", fstype, dst, FALSE)
                /\ UNCHANGED <<fake_root_base, fake_root_touchs, namespaces, panicked, child>>

\* Command::unshare called by the user of the Command.
Unshare(ns) ==
    /\ InParent
    /\ namespaces' = unshare(namespaces, {ns})
    /\ ncalls' = ncalls + 1
    /\ lastCall' = Call("unshare", None, <<ns>>, FALSE)
    /\ UNCHANGED <<fake_root_base, fake_root_mounts, fake_root_mkdirs, fake_root_touchs,
                   panicked, child>>

(***************************************************************************)
(* build_fakeroot: one step per libc call; ok is the kernel's answer.      *)
(***************************************************************************)
null_char == <<"NULL">>
slash == <<"/">>
dot == <<".">>
tmpfs == <<"t", "m", "p", "f", "s">>

Syscall(call, site, i, src, target, fstype, flags) ==
    [call |-> call, site |-> site, i |-> i, src |-> src, target |-> target,
     fstype |-> fstype, flags |-> flags]

\* "for mount in mountpoints { if mount.readonly {" : the next entry to remount
\* at or after i, or the end of the function, which returns true.
RECURSIVE ReadonlyLoop(_)
ReadonlyLoop(i) ==
    IF i > Len(fake_root_mounts) THEN <<"done", 0, Some(TRUE)>>
    ELSE IF fake_root_mounts[i].readonly THEN <<"remount_ro", i, None>>
    ELSE ReadonlyLoop(i + 1)

\* "for mount in mountpoints {" : the next entry to attach, or the root switch.
MountLoop(i) ==
    IF i <= Len(fake_root_mounts) THEN <<"mount", i, None>> ELSE <<"pivot_root", 0, None>>

\* "for file in touchs {"
TouchLoop(i) ==
    IF i <= Len(fake_root_touchs) THEN <<"touch", i, None>> ELSE MountLoop(1)

\* "for dir in mkdirs {"
MkdirLoop_SkipTouchs(i) ==
    IF i <= Len(fake_root_mkdirs) THEN <<"mkdir", i, None>> ELSE MountLoop(1)

MkdirLoop(i) ==
    IF i <= Len(fake_root_mkdirs) THEN <<"mkdir", i, None>> ELSE TouchLoop(1)

\* The libc call `call` is issued, the kernel answers ok, and the function
\* goes on at `to` (a position, a loop index and, at a return, the result).
Step(call, ok, to) ==
    /\ log' = Append(log, call)
    /\ lastRes' = ok
    /\ pc' = to[1]
    /\ idx' = to[2]
    /\ result' = to[3]

ReturnFalse == <<"done", 0, Some(FALSE)>>

\* The spawn engine calls build_fakeroot in the forked child with the
\* fakeroot fields of the Config.
Enter ==
    /\ pc = "parent" /\ ~panicked
    /\ fake_root_base # None
    /\ pc' = "mkdir_base"
    /\ UNCHANGED <<cfg, api, idx, log, lastRes, result, root, cwd, attached, remounted>>

MkdirBase ==
    /\ pc = "mkdir_base"
    /\ \E ok \in BOOLEAN :
         Step(Syscall("mkdir", "base", 0, null_char, fake_root_base[1], null_char, {}),
              ok, <<"mount_private", 0, None>>)
    /\ UNCHANGED <<cfg, api, root, cwd, attached, remounted>>

MountPrivate ==
    /\ pc = "mount_private"
    /\ \E ok \in BOOLEAN :
         Step(Syscall("mount", "private", 0, slash, slash, null_char, {"MS_PRIVATE", "MS_REC"}),
              ok, IF ok THEN <<"mount_tmpfs", 0, None>> ELSE ReturnFalse)
    /\ UNCHANGED <<cfg, api, root, cwd, attached, remounted>>

MountTmpfs_Unchecked ==
    /\ pc = "mount_tmpfs"
    /\ \E ok \in BOOLEAN :
         Step(Syscall("mount", "tmpfs", 0, null_char, fake_root_base[1], tmpfs, {}),
              ok, MkdirLoop(1))
    /\ UNCHANGED <<cfg, api, root, cwd, attached, remounted>>

MountTmpfs ==
    /\ pc = "mount_tmpfs"
    /\ \E ok \in BOOLEAN :
         Step(Syscall("mount", "tmpfs", 0, null_char, fake_root_base[1], tmpfs, {}),
              ok, IF ok THEN MkdirLoop(1) ELSE ReturnFalse)
    /\ UNCHANGED <<cfg, api, root, cwd, attached, remounted>>

Mkdir_Checked ==
    /\ pc = "mkdir"
    /\ \E ok \in BOOLEAN :
         Step(Syscall("mkdir", "mkdirs", idx, null_char, fake_root_mkdirs[idx], null_char, {}),
              ok, IF ok THEN MkdirLoop(idx + 1) ELSE ReturnFalse)
    /\ UNCHANGED <<cfg, api, root, cwd, attached, remounted>>

Mkdir ==
    /\ pc = "mkdir"
    /\ \E ok \in BOOLEAN :
         Step(Syscall("mkdir", "mkdirs", idx, null_char, fake_root_mkdirs[idx], null_char, {}),
              ok, MkdirLoop(idx + 1))
    /\ UNCHANGED <<cfg, api, root, cwd, attached, remounted>>

\* libc::open(O_RDONLY | O_CREAT | O_CLOEXEC), and libc::close when it gave a descriptor.
Touch_Checked ==
    /\ pc = "touch"
    /\ \E ok \in BOOLEAN :
         Step(Syscall("open", "touchs", idx, null_char, fake_root_touchs[idx], null_char,
                      {"O_RDONLY", "O_CREAT", "O_CLOEXEC"}),
              ok, IF ok THEN TouchLoop(idx + 1) ELSE ReturnFalse)
    /\ UNCHANGED <<cfg, api, root, cwd, attached, remounted>>

Touch ==
    /\ pc = "touch"
    /\ \E ok \in BOOLEAN :
         Step(Syscall("open", "touchs", idx, null_char, fake_root_touchs[idx], null_char,
                      {"O_RDONLY", "O_CREAT", "O_CLOEXEC"}),
              ok, TouchLoop(idx + 1))
    /\ UNCHANGED <<cfg, api, root, cwd, attached, remounted>>

MountEntry_Readonly(mount) ==
    IF mount.is_special_fs
    THEN Syscall("mount", "mounts", idx, null_char, mount.mountpoint_outer, mount.src, {})
    ELSE Syscall("mount", "mounts", idx, mount.src, mount.mountpoint_outer, null_char,
                 {"MS_PRIVATE", "MS_REC", "MS_BIND"}
                     \cup (IF mount.readonly THEN {"MS_RDONLY"} ELSE {}))

MountEntry(mount) ==
    IF mount.is_special_fs
    THEN Syscall("mount", "mounts", idx, null_char, mount.mountpoint_outer, mount.src, {})
    ELSE Syscall("mount", "mounts", idx, mount.src, mount.mountpoint_outer, null_char,
                 {"MS_PRIVATE", "MS_REC", "MS_BIND"})

Mount_Retry ==
    /\ pc = "mount"
    /\ \E ok \in BOOLEAN :
         /\ Step(MountEntry(fake_root_mounts[idx]), ok,
                 IF ok THEN MountLoop(idx + 1) ELSE <<"mount", idx, None>>)
         /\ attached' = IF ok THEN attached \cup {idx} ELSE attached
    /\ UNCHANGED <<cfg, api, root, cwd, remounted>>

Mount ==
    /\ pc = "mount"
    /\ \E ok \in BOOLEAN :
         /\ Step(MountEntry(fake_root_mounts[idx]), ok,
                 IF ok THEN MountLoop(idx + 1) ELSE ReturnFalse)
         /\ attached' = IF ok THEN attached \cup {idx} ELSE attached
    /\ UNCHANGED <<cfg, api, root, cwd, remounted>>

PivotRoot ==
    /\ pc = "pivot_root"
    /\ \E ok \in BOOLEAN :
         /\ Step(Syscall("pivot_root", "pivot_root", 0, fake_root_base[1], fake_root_base[1],
                         null_char, {}),
                 ok, IF ok THEN <<"umount2", 0, None>> ELSE <<"chdir", 0, None>>)
         /\ root' = IF ok THEN "base" ELSE root
    /\ UNCHANGED <<cfg, api, cwd, attached, remounted>>

Umount2 ==
    /\ pc = "umount2"
    /\ \E ok \in BOOLEAN :
         Step(Syscall("umount2", "umount2", 0, null_char, slash, null_char, {"MNT_DETACH"}),
              ok, <<"remount_root", 0, None>>)
    /\ UNCHANGED <<cfg, api, root, cwd, attached, remounted>>

Chdir ==
    /\ pc = "chdir"
    /\ \E ok \in BOOLEAN :
         /\ Step(Syscall("chdir", "chdir", 0, null_char, fake_root_base[1], null_char, {}),
                 ok, <<"mount_dot", 0, None>>)
         /\ cwd' = IF ok THEN "base" ELSE cwd
    /\ UNCHANGED <<cfg, api, root, attached, remounted>>

MountDot ==
    /\ pc = "mount_dot"
    /\ \E ok \in BOOLEAN :
         Step(Syscall("mount", "dot", 0, dot, slash, null_char, {}),
              ok, <<"chroot", 0, None>>)
    /\ UNCHANGED <<cfg, api, root, cwd, attached, remounted>>

\* chroot(".") makes the working directory the root.
Chroot_NoReturn ==
    /\ pc = "chroot"
    /\ \E ok \in BOOLEAN :
         /\ Step(Syscall("chroot", "chroot", 0, null_char, dot, null_char, {}),
                 ok, IF ok THEN <<"remount_root", 0, None>> ELSE <<"chroot_failed", 0, None>>)
         /\ root' = IF ok THEN cwd ELSE root
    /\ UNCHANGED <<cfg, api, cwd, attached, remounted>>

Chroot ==
    /\ pc = "chroot"
    /\ \E ok \in BOOLEAN :
         /\ Step(Syscall("chroot", "chroot", 0, null_char, dot, null_char, {}),
                 ok, IF ok THEN <<"remount_root", 0, None>> ELSE ReturnFalse)
         /\ root' = IF ok THEN cwd ELSE root
    /\ UNCHANGED <<cfg, api, cwd, attached, remounted>>

RemountRoot ==
    /\ pc = "remount_root"
    /\ \E ok \in BOOLEAN :
         Step(Syscall("mount", "remount_root", 0, slash, slash, null_char,
                      {"MS_REMOUNT", "MS_BIND", "MS_RDONLY"}),
              ok, ReadonlyLoop(1))
    /\ UNCHANGED <<cfg, api, root, cwd, attached, remounted>>

RemountReadonly_Unchecked ==
    /\ pc = "remount_ro"
    /\ \E ok \in BOOLEAN :
         /\ Step(Syscall("mount", "remount_ro", idx, fake_root_mounts[idx].mountpoint,
                         fake_root_mounts[idx].mountpoint, null_char,
                         {"MS_REMOUNT", "MS_BIND", "MS_RDONLY"}),
                 ok, ReadonlyLoop(idx + 1))
         /\ remounted' = IF ok THEN remounted \cup {idx} ELSE remounted
    /\ UNCHANGED <<cfg, api, root, cwd, attached>>

RemountReadonly ==
    /\ pc = "remount_ro"
    /\ \E ok \in BOOLEAN :
         /\ Step(Syscall("mount", "remount_ro", idx, fake_root_mounts[idx].mountpoint,
                         fake_root_mounts[idx].mountpoint, null_char,
                         {"MS_REMOUNT", "MS_BIND", "MS_RDONLY"}),
                 ok, IF ok THEN ReadonlyLoop(idx + 1) ELSE ReturnFalse)
         /\ remounted' = IF ok THEN remounted \cup {idx} ELSE remounted
    /\ UNCHANGED <<cfg, api, root, cwd, attached>>

(***************************************************************************)
(* The specification.                                                      *)
(***************************************************************************)
Init ==
    /\ fake_root_base = None
    /\ fake_root_mounts = <<>>
    /\ fake_root_mkdirs = <<>>
    /\ fake_root_touchs = <<>>
    /\ namespaces = {}
    /\ ncalls = 0
    /\ lastCall = Call("new", None, None, FALSE)
    /\ panicked = FALSE
    /\ pc = "parent"
    /\ idx = 0
    /\ log = <<>>
    /\ lastRes = TRUE
    /\ result = None
    /\ root = "host_root"
    /\ cwd = "host_cwd"
    /\ attached = {}
    /\ remounted = {}

Next ==
    \/ \E base_ \in Bases : fakeroot_enable(base_)
    \/ \E src \in Srcs, dst \in Dsts, readonly \in BOOLEAN : fakeroot_mount(src, dst, readonly)
    \/ \E src \in Srcs, dst \in Dsts, readonly \in BOOLEAN : fakeroot_mount_file(src, dst, readonly)
    \/ \E fstype \in FsTypes, dst \in Dsts : fakeroot_filesystem(fstype, dst)
    \/ \E ns \in Namespace : Unshare(ns)
    \/ Enter
    \/ MkdirBase
    \/ MountPrivate
    \/ MountTmpfs
    \/ Mkdir
    \/ Touch
    \/ Mount
    \/ PivotRoot
    \/ Umount2
    \/ Chdir
    \/ MountDot
    \/ Chroot
    \/ RemountRoot
    \/ RemountReadonly

Spec == Init /\ [][Next]_vars

\* The steps of build_fakeroot.  The child is the only thread of its process
\* and no libc call of the function blocks, so a step that can be taken is taken.
BuildStep ==
    \/ MkdirBase \/ MountPrivate \/ MountTmpfs \/ Mkdir \/ Touch \/ Mount
    \/ PivotRoot \/ Umount2 \/ Chdir \/ MountDot \/ Chroot \/ RemountRoot
    \/ RemountReadonly

FairSpec == Init /\ [][Next]_vars /\ WF_vars(BuildStep)

(***************************************************************************)
(* Vocabulary of the properties.                                           *)
(***************************************************************************)
Last(s) == s[Len(s)]
Range(s) == { s[i] : i \in 1..Len(s) }

\* A Command method was called in this step.
Called(op) == ncalls' = ncalls + 1 /\ lastCall'.op = op

\* The proper ancestors of a path that lie below the root, the highest first.
RECURSIVE AncestorChain(_)
AncestorChain(p) ==
    LET par == Parent(p)
    IN  IF par = None THEN <<>>
        ELSE IF Parent(par[1]) = None THEN <<>>
        ELSE AncestorChain(par[1]) \o <<par[1]>>

StagedChain(b, p) ==
    [i \in 1..Len(AncestorChain(p)) |-> b \o <<"/">> \o AncestorChain(p)[i]]

\* a is reached from x by taking the parent one or more times.
RECURSIVE IsAncestor(_, _)
IsAncestor(a, x) ==
    LET par == Parent(x)
    IN  par # None /\ (par[1] = a \/ IsAncestor(a, par[1]))

FirstIndex(s, x) == CHOOSE i \in 1..Len(s) : s[i] = x /\ \A j \in 1..(i - 1) : s[j] # x

\* The base an entry was registered under: its staging path without "/" and the mountpoint.
EntryBase(m) == SubSeq(m.mountpoint_outer, 1, Len(m.mountpoint_outer) - Len(m.mountpoint) - 1)

FatalSites == {"private", "tmpfs", "mounts", "chroot", "remount_ro"}
FatalFailed == log # <<>> /\ Last(log).site \in FatalSites /\ ~lastRes

P_s == <<"/", "s">>
P_b == <<"/", "b">>
P_d == <<"/", "d">>
P_du == <<"/", "d", "/", "u">>

(***************************************************************************)
(* C1: whenever build_fakeroot returns true, the child's root is the tmpfs *)
(* mounted at base, whatever the kernel answered to the single calls.      *)
(***************************************************************************)
C1_SuccessMeansRootIsBase == result = Some(TRUE) => root = "base"

(***************************************************************************)
(* C2: the failure of a fatal call (private remount of "/", tmpfs mount,   *)
(* attaching an entry, chroot, read-only remount of an entry) makes the    *)
(* function return false in that very step, and no libc call is issued     *)
(* once it has returned.                                                   *)
(***************************************************************************)
C2_FatalFailureReturnsAtOnce ==
    [][ /\ FatalFailed' => (pc' = "done" /\ result' = Some(FALSE))
        /\ pc = "done" => log' = log
        /\ result' = Some(FALSE) => FatalFailed' ]_vars

C2_Witness ==
    /\ result = Some(FALSE)
    /\ Last(log).site = "mounts" /\ Last(log).i = 1
    /\ Len(fake_root_mounts) >= 2

(***************************************************************************)
(* C3: build_fakeroot returns true only if every entry was attached and    *)
(* every readonly entry was remounted read-only; a failed read-only        *)
(* remount gives false although the root has been switched.                *)
(***************************************************************************)
C3_SuccessNeedsAllMounts ==
    /\ result = Some(TRUE) =>
          /\ attached = 1..Len(fake_root_mounts)
          /\ \A i \in 1..Len(fake_root_mounts) : fake_root_mounts[i].readonly => i \in remounted
    /\ (log # <<>> /\ Last(log).site = "remount_ro" /\ ~lastRes) =>
          (result = Some(FALSE) /\ root # "host_root")

C3_Witness ==
    /\ result = Some(TRUE)
    /\ \E i, j \in 1..Len(fake_root_mounts) :
          fake_root_mounts[i].readonly /\ ~fake_root_mounts[j].readonly

(***************************************************************************)
(* C4: fakeroot_mount, fakeroot_mount_file and fakeroot_filesystem called  *)
(* while fake_root_base is None panic and leave base, mountpoints,         *)
(* directories and files as they were.                                     *)
(***************************************************************************)
C4_RegistrationBeforeEnablePanics ==
    [][ (fake_root_base = None
          /\ (Called("mount") \/ Called("mount_file") \/ Called("filesystem")))
        => (panicked' /\ UNCHANGED <<fake_root_base, fake_root_mounts,
                                     fake_root_mkdirs, fake_root_touchs>>) ]_vars

C4_Witness ==
    panicked /\ fake_root_base = None /\ lastCall.op = "mount" /\ fake_root_mounts = <<>>

(***************************************************************************)
(* C5: fake_root_mkdirs holds the staging path of every ancestor directory *)
(* (below the root) of every registered destination, and the first         *)
(* occurrence of an ancestor precedes every occurrence of its descendants. *)
(***************************************************************************)
C5_AncestorsBeforeDescendants ==
    \A k \in 1..Len(fake_root_mounts) :
        LET m == fake_root_mounts[k]
            chain == StagedChain(EntryBase(m), m.mountpoint)
        IN  \A a \in 1..Len(chain) :
               /\ chain[a] \in Range(fake_root_mkdirs)
               /\ \A j \in 1..Len(fake_root_mkdirs) :
                     IsAncestor(chain[a], fake_root_mkdirs[j])
                         => FirstIndex(fake_root_mkdirs, chain[a]) < j

C5_Witness ==
    /\ Len(fake_root_mounts) = 2
    /\ fake_root_mounts[1].mountpoint = P_du
    /\ fake_root_mounts[2].mountpoint = P_d
    /\ Len(fake_root_mkdirs) >= 3

(***************************************************************************)
(* C6 as stated: in every reachable state every entry's mountpoint_outer   *)
(* is, character by character, the configured base followed by the entry's *)
(* mountpoint.                                                             *)
(***************************************************************************)
C6_OuterIsBaseThenMountpoint ==
    fake_root_base # None =>
        \A i \in 1..Len(fake_root_mounts) :
            fake_root_mounts[i].mountpoint_outer
                = fake_root_base[1] \o fake_root_mounts[i].mountpoint

(***************************************************************************)
(* C6 amended: an entry's mountpoint_outer is the base configured when the *)
(* entry is registered, then the separator "/", then the entry's           *)
(* mountpoint; and no later call, fakeroot_enable with another base        *)
(* included, changes it.                                                   *)
(***************************************************************************)
C6_OuterIsBaseSlashMountpointAtRegistration ==
    [][ /\ Len(fake_root_mounts') >= Len(fake_root_mounts)
        /\ SubSeq(fake_root_mounts', 1, Len(fake_root_mounts)) = fake_root_mounts
        /\ Len(fake_root_mounts') > Len(fake_root_mounts) =>
              /\ Len(fake_root_mounts') = Len(fake_root_mounts) + 1
              /\ fake_root_base # None
              /\ Last(fake_root_mounts').mountpoint_outer
                    = fake_root_base[1] \o <<"/">> \o Last(fake_root_mounts').mountpoint ]_vars

C6_Witness ==
    /\ fake_root_base = Some(<<"/", "t">>)
    /\ Len(fake_root_mounts) = 1
    /\ fake_root_mounts[1].mountpoint = P_b
    /\ fake_root_mounts[1].mountpoint_outer = <<"/", "s", "/", "/", "b">>

(***************************************************************************)
(* C7: in build_fakeroot no entry is attached before the mkdir of every    *)
(* element of fake_root_mkdirs and the open of every element of            *)
(* fake_root_touchs have been issued, and every mkdir is issued before the *)
(* first open.                                                             *)
(***************************************************************************)
C7_MaterializeBeforeAttach ==
    \A k \in 1..Len(log) :
        /\ log[k].site \in {"touchs", "mounts"} =>
              \A i \in 1..Len(fake_root_mkdirs) :
                  \E j \in 1..(k - 1) :
                      /\ log[j].site = "mkdirs" /\ log[j].call = "mkdir"
                      /\ log[j].i = i /\ log[j].target = fake_root_mkdirs[i]
        /\ log[k].site = "mounts" =>
              \A i \in 1..Len(fake_root_touchs) :
                  \E j \in 1..(k - 1) :
                      /\ log[j].site = "touchs" /\ log[j].call = "open"
                      /\ log[j].i = i /\ log[j].target = fake_root_touchs[i]

C7_Witness ==
    /\ log # <<>> /\ Last(log).site = "mounts"
    /\ Len(fake_root_mkdirs) >= 2 /\ Len(fake_root_touchs) >= 1

(***************************************************************************)
(* C8 as stated: fakeroot_mount appends to fake_root_mkdirs the staging    *)
(* paths of the proper ancestors of dst only, never that of dst; after     *)
(* enable("/s") and mount("/b", "/b", true) fake_root_mkdirs is empty.     *)
(***************************************************************************)
C8_MountAddsProperAncestorsOnly ==
    [][ (Called("mount") /\ ~panicked') =>
            fake_root_mkdirs' = fake_root_mkdirs
                \o StagedChain(fake_root_base[1], lastCall'.dst) ]_vars

(***************************************************************************)
(* C8 amended: fakeroot_mount appends to fake_root_mkdirs the paths        *)
(* base + "/" + p for the proper ancestors p of dst, from just below the   *)
(* root down to dst's parent, and then for dst itself (nothing when dst is *)
(* the root); after enable("/s") and mount("/b", "/b", true)               *)
(* fake_root_mkdirs is <<"/s//b">>.                                        *)
(***************************************************************************)
C8_MountAddsAncestorsThenDst ==
    [][ (Called("mount") /\ ~panicked') =>
          LET dst == lastCall'.dst
              own == IF Parent(dst) = None THEN <<>>
                     ELSE << fake_root_base[1] \o <<"/">> \o dst >>
          IN  /\ fake_root_mkdirs' = fake_root_mkdirs
                     \o StagedChain(fake_root_base[1], dst) \o own
              /\ (fake_root_base = Some(P_s) /\ dst = P_b /\ fake_root_mkdirs = <<>>)
                     => fake_root_mkdirs' = << <<"/", "s", "/", "/", "b">> >> ]_vars

C8_Witness ==
    /\ lastCall.op = "mount" /\ lastCall.dst = P_du /\ ~panicked
    /\ fake_root_base = Some(P_s)
    /\ fake_root_mkdirs = << <<"/", "s", "/", "/", "d">>,
                             <<"/", "s", "/", "/", "d", "/", "u">> >>

(***************************************************************************)
(* C9 as stated: fakeroot_mount_file appends the staging paths of dst's    *)
(* ancestors (not dst) to fake_root_mkdirs, one element, dst's staging     *)
(* path, to fake_root_touchs, and one bind entry with the given readonly   *)
(* flag; with base "/s", mount_file("/d/u", "/d/u", false) gives the       *)
(* directory "/s/d" and the file "/s/d/u".                                 *)
(***************************************************************************)
MountFileEffect ==
    LET dst == lastCall'.dst
        base_ == fake_root_base[1]
    IN  /\ fake_root_mkdirs' = fake_root_mkdirs \o StagedChain(base_, dst)
        /\ Len(fake_root_touchs') = Len(fake_root_touchs) + 1
        /\ SubSeq(fake_root_touchs', 1, Len(fake_root_touchs)) = fake_root_touchs
        /\ Len(fake_root_mounts') = Len(fake_root_mounts) + 1
        /\ SubSeq(fake_root_mounts', 1, Len(fake_root_mounts)) = fake_root_mounts
        /\ Last(fake_root_touchs') = Last(fake_root_mounts').mountpoint_outer
        /\ Last(fake_root_mounts').mountpoint = dst
        /\ Last(fake_root_mounts').src = lastCall'.src
        /\ Last(fake_root_mounts').readonly = lastCall'.readonly
        /\ Last(fake_root_mounts').is_special_fs = FALSE

ScenarioB ==
    /\ fake_root_base = Some(P_s)
    /\ lastCall'.dst = P_du
    /\ lastCall'.readonly = FALSE

C9_MountFileScenarioSingleSlash ==
    [][ (Called("mount_file") /\ ~panicked') =>
          /\ MountFileEffect
          /\ ScenarioB =>
                /\ fake_root_mkdirs' = Append(fake_root_mkdirs, <<"/", "s", "/", "d">>)
                /\ Last(fake_root_touchs') = <<"/", "s", "/", "d", "/", "u">>
                /\ Last(fake_root_mounts').readonly = FALSE ]_vars

(***************************************************************************)
(* C9 amended: the same, but the paths are base + "/" + path, so that with *)
(* base "/s" mount_file("/d/u", "/d/u", false) gives the directory         *)
(* "/s//d", the file "/s//d/u" and readonly false.                         *)
(***************************************************************************)
C9_MountFileScenarioDoubleSlash ==
    [][ (Called("mount_file") /\ ~panicked') =>
          /\ MountFileEffect
          /\ ScenarioB =>
                /\ fake_root_mkdirs' = Append(fake_root_mkdirs, <<"/", "s", "/", "/", "d">>)
                /\ Last(fake_root_touchs') = <<"/", "s", "/", "/", "d", "/", "u">>
                /\ Last(fake_root_mounts').readonly = FALSE ]_vars

C9_Witness ==
    /\ lastCall.op = "mount_file" /\ lastCall.dst = P_du /\ ~lastCall.readonly
    /\ ~panicked
    /\ fake_root_base = Some(P_s)
    /\ fake_root_touchs = << <<"/", "s", "/", "/", "d", "/", "u">> >>
    /\ fake_root_mkdirs = << <<"/", "s", "/", "/", "d">> >>

(***************************************************************************)
(* C10: fakeroot_enable(base) sets fake_root_base to Some(base), also when *)
(* a base was set before, adds Mount to the namespaces to create and       *)
(* leaves mountpoints, directories and files alone; so whenever a base is  *)
(* set, Mount is among the namespaces to create.                           *)
(***************************************************************************)
C10_EnableSetsBaseAndMountNamespace ==
    [][ /\ Called("enable") =>
              /\ fake_root_base' = Some(lastCall'.dst)
              /\ namespaces' = namespaces \cup {"Mount"}
              /\ UNCHANGED <<fake_root_mounts, fake_root_mkdirs, fake_root_touchs>>
        /\ fake_root_base' # None => "Mount" \in namespaces' ]_vars

C10_Witness ==
    /\ lastCall.op = "enable" /\ lastCall.dst = <<"/", "t">>
    /\ fake_root_base = Some(<<"/", "t">>)
    /\ Len(fake_root_mounts) = 1
    /\ EntryBase(fake_root_mounts[1]) = P_s
    /\ "Mount" \in namespaces

(***************************************************************************)
(* C11: an entry registered by fakeroot_filesystem is a special-filesystem *)
(* entry with readonly = false; build_fakeroot attaches such an entry with *)
(* a null source, the entry's src as filesystem type and no flag, and      *)
(* issues no read-only remount for it.                                     *)
(***************************************************************************)
C11_FilesystemEntriesNeverReadonly ==
    /\ (lastCall.op = "filesystem" /\ ~panicked) =>
          /\ Last(fake_root_mounts).is_special_fs
          /\ Last(fake_root_mounts).src = lastCall.src
          /\ Last(fake_root_mounts).mountpoint = lastCall.dst
    /\ \A i \in 1..Len(fake_root_mounts) :
          fake_root_mounts[i].is_special_fs => ~fake_root_mounts[i].readonly
    /\ \A k \in 1..Len(log) :
          (log[k].site \in {"mounts", "remount_ro"}
             /\ fake_root_mounts[log[k].i].is_special_fs) =>
                /\ log[k].site = "mounts"
                /\ log[k].call = "mount"
                /\ log[k].src = null_char
                /\ log[k].target = fake_root_mounts[log[k].i].mountpoint_outer
                /\ log[k].fstype = fake_root_mounts[log[k].i].src
                /\ log[k].flags = {}

C11_Witness ==
    /\ result = Some(TRUE)
    /\ Len(fake_root_mounts) = 2
    /\ fake_root_mounts[1].is_special_fs
    /\ fake_root_mounts[2].readonly
    /\ \E k \in 1..Len(log) : log[k].site = "mounts" /\ log[k].i = 1
    /\ \E k \in 1..Len(log) : log[k].site = "remount_ro" /\ log[k].i = 2

(***************************************************************************)
(* C12: a registration made after fakeroot_enable never fails, also when   *)
(* its destination or an ancestor of it was registered before: the paths   *)
(* are appended to fake_root_mkdirs again; and the mkdir of a path that    *)
(* was already the subject of an earlier mkdir of the run leaves the       *)
(* function at the same place, with the same calls to come, whether it     *)
(* fails or succeeds.                                                      *)
(***************************************************************************)
\* Where build_fakeroot stands after the i-th mkdir, whatever its result.
AfterMkdir(i) ==
    IF i < Len(fake_root_mkdirs) THEN <<"mkdir", i + 1>>
    ELSE IF fake_root_touchs # <<>> THEN <<"touch", 1>>
    ELSE IF fake_root_mounts # <<>> THEN <<"mount", 1>>
    ELSE <<"pivot_root", 0>>

DuplicateMkdir(i) == \E j \in 1..(i - 1) : fake_root_mkdirs[j] = fake_root_mkdirs[i]

C12_DuplicatesTolerated ==
    [][ /\ (fake_root_base # None
             /\ (Called("mount") \/ Called("mount_file") \/ Called("filesystem"))) =>
              /\ ~panicked'
              /\ Len(fake_root_mounts') = Len(fake_root_mounts) + 1
              /\ Len(fake_root_mkdirs') = Len(fake_root_mkdirs)
                    + Len(AncestorChain(lastCall'.dst))
                    + (IF Called("mount_file") \/ Parent(lastCall'.dst) = None THEN 0 ELSE 1)
              /\ SubSeq(fake_root_mkdirs', 1, Len(fake_root_mkdirs)) = fake_root_mkdirs
        /\ (pc = "mkdir" /\ DuplicateMkdir(idx) /\ log' # log) =>
              /\ <<pc', idx'>> = AfterMkdir(idx)
              /\ result' = None
              /\ Len(log') = Len(log) + 1
              /\ Last(log').call = "mkdir"
              /\ Last(log').target = fake_root_mkdirs[idx] ]_vars

C12_Witness ==
    /\ Len(fake_root_mounts) = 2
    /\ fake_root_mounts[1].mountpoint = P_du
    /\ fake_root_mounts[2].mountpoint = P_du
    /\ Len(fake_root_mkdirs) = 4
    /\ log # <<>> /\ Last(log).site = "mkdirs" /\ Last(log).i = 4 /\ ~lastRes
    /\ pc = "mount"

(***************************************************************************)
(* C13: the result of build_fakeroot and the libc calls it issues do not   *)
(* depend on the result of a call whose result is not checked: the mkdir   *)
(* of base, the mkdir of a directory, the open of a placeholder file, the  *)
(* umount2 after a successful pivot_root, the read-only remount of "/".    *)
(* After such a call the function stands where its result-blind control    *)
(* flow puts it, and nothing but the log has changed.                      *)
(***************************************************************************)
UncheckedPlaces == {"mkdir_base", "mkdir", "touch", "umount2", "remount_root"}

ReadonlyEntries == { i \in 1..Len(fake_root_mounts) : fake_root_mounts[i].readonly }

Min(S) == CHOOSE x \in S : \A y \in S : x <= y

AfterTouch(i) ==
    IF i < Len(fake_root_touchs) THEN <<"touch", i + 1>>
    ELSE IF fake_root_mounts # <<>> THEN <<"mount", 1>>
    ELSE <<"pivot_root", 0>>

AfterUnchecked ==
    CASE pc = "mkdir_base" -> <<"mount_private", 0, None>>
      [] pc = "mkdir" -> AfterMkdir(idx) \o <<None>>
      [] pc = "touch" -> AfterTouch(idx) \o <<None>>
      [] pc = "umount2" -> <<"remount_root", 0, None>>
      [] pc = "remount_root" ->
            IF ReadonlyEntries = {} THEN <<"done", 0, Some(TRUE)>>
            ELSE <<"remount_ro", Min(ReadonlyEntries), None>>

SwitchSites == {"pivot_root", "umount2", "chdir", "dot", "chroot"}

RootSwitchOrder ==
    /\ Cardinality({ k \in 1..Len(log) : log[k].site = "pivot_root" }) <= 1
    /\ \A k \in 1..Len(log) :
          /\ log[k].site = "pivot_root" =>
                /\ log[k].call = "pivot_root"
                /\ log[k].src = fake_root_base[1] /\ log[k].target = fake_root_base[1]
                /\ \A j \in 1..(k - 1) : log[j].site \notin SwitchSites
          /\ log[k].site = "umount2" =>
                /\ k > 1 /\ log[k - 1].site = "pivot_root"
                /\ log[k].call = "umount2" /\ log[k].target = slash
                /\ log[k].flags = {"MNT_DETACH"}
                /\ \A j \in 1..Len(log) : log[j].site \notin {"chdir", "dot", "chroot"}
          /\ log[k].site = "chdir" =>
                /\ k > 1 /\ log[k - 1].site = "pivot_root"
                /\ log[k].call = "chdir" /\ log[k].target = fake_root_base[1]
          /\ log[k].site = "dot" =>
                /\ k > 1 /\ log[k - 1].site = "chdir"
                /\ log[k].call = "mount" /\ log[k].src = dot /\ log[k].target = slash
          /\ log[k].site = "chroot" =>
                /\ k > 1 /\ log[k - 1].site = "dot"
                /\ log[k].call = "chroot" /\ log[k].target = dot
    /\ (log # <<>> /\ Last(log).site = "pivot_root") =>
          pc = (IF lastRes THEN "umount2" ELSE "chdir")
    /\ (log # <<>> /\ Last(log).site \in SwitchSites) =>
          ((result = Some(FALSE)) <=> (Last(log).site = "chroot" /\ ~lastRes))

C14_RootSwitchProtocol ==
    /\ RootSwitchOrder
    /\ \A k \in 1..Len(log) : log[k].site = "dot" => "MS_BIND" \in log[k].flags

(***************************************************************************)
(* C15: a bind entry is attached by a mount with exactly the flags bind,   *)
(* recursive and private at its mountpoint_outer, never read-only; the     *)
(* read-only flag is only carried by remounts (remount + bind +            *)
(* read-only) issued after the root switch, and the remount of an entry    *)
(* names the entry's mountpoint, not its mountpoint_outer, and is issued   *)
(* for readonly entries only.                                              *)
(***************************************************************************)
C15_BindThenReadonlyRemount ==
    \A k \in 1..Len(log) :
        /\ (log[k].site = "mounts" /\ ~fake_root_mounts[log[k].i].is_special_fs) =>
              /\ log[k].call = "mount"
              /\ log[k].flags = {"MS_BIND", "MS_REC", "MS_PRIVATE"}
              /\ log[k].src = fake_root_mounts[log[k].i].src
              /\ log[k].target = fake_root_mounts[log[k].i].mountpoint_outer
              /\ \A j \in 1..(k - 1) : log[j].site \notin SwitchSites
        /\ "MS_RDONLY" \in log[k].flags =>
              /\ log[k].site \in {"remount_root", "remount_ro"}
              /\ log[k].flags = {"MS_REMOUNT", "MS_BIND", "MS_RDONLY"}
              /\ \E j \in 1..(k - 1) : log[j].site \in {"umount2", "chroot"}
              /\ root # "host_root"
        /\ log[k].site = "remount_ro" =>
              /\ log[k].call = "mount"
              /\ "MS_RDONLY" \in log[k].flags
              /\ fake_root_mounts[log[k].i].readonly
              /\ log[k].target = fake_root_mounts[log[k].i].mountpoint
              /\ log[k].target # fake_root_mounts[log[k].i].mountpoint_outer
              /\ \E j \in 1..(k - 1) : log[j].site = "mounts" /\ log[j].i = log[k].i

C15_Witness ==
    /\ log # <<>> /\ Last(log).site = "remount_ro" /\ lastRes
    /\ ~fake_root_mounts[Last(log).i].is_special_fs
    /\ \E i \in 1..Len(fake_root_mounts) :
          ~fake_root_mounts[i].readonly /\ ~fake_root_mounts[i].is_special_fs

(***************************************************************************)
(* C16: build_fakeroot attaches the entries in the order in which the      *)
(* registration calls were made, and repeats no call: every element of     *)
(* fake_root_mkdirs, fake_root_touchs and fake_root_mounts is the subject  *)
(* of at most one mkdir, open and attach (of exactly one when the function *)
(* returns true), and every readonly entry of at most one read-only        *)
(* remount (exactly one when it returns true).                             *)
(***************************************************************************)
Attempts(site, i) == { k \in 1..Len(log) : log[k].site = site /\ log[k].i = i }

EachAtMostOnce ==
    /\ \A k \in 1..Len(log) :
          log[k].site = "mounts" =>
              /\ log[k].i = 1 + Cardinality({ j \in 1..(k - 1) : log[j].site = "mounts" })
              /\ log[k].target = fake_root_mounts[log[k].i].mountpoint_outer
    /\ \A i \in 1..Len(fake_root_mkdirs) :
          /\ Cardinality(Attempts("mkdirs", i)) <= 1
          /\ result = Some(TRUE) => Cardinality(Attempts("mkdirs", i)) = 1
    /\ \A i \in 1..Len(fake_root_touchs) :
          /\ Cardinality(Attempts("touchs", i)) <= 1
          /\ result = Some(TRUE) => Cardinality(Attempts("touchs", i)) = 1
    /\ \A i \in 1..Len(fake_root_mounts) :
          /\ Cardinality(Attempts("mounts", i)) <= 1
          /\ result = Some(TRUE) => Cardinality(Attempts("mounts", i)) = 1
          /\ Cardinality(Attempts("remount_ro", i)) <= 1
          /\ (result = Some(TRUE) /\ fake_root_mounts[i].readonly)
                => Cardinality(Attempts("remount_ro", i)) = 1

C16_RegistrationOrderNoRetry ==
    [][ /\ ((Called("mount") \/ Called("mount_file") \/ Called("filesystem")) /\ ~panicked') =>
              /\ Len(fake_root_mounts') = Len(fake_root_mounts) + 1
              /\ SubSeq(fake_root_mounts', 1, Len(fake_root_mounts)) = fake_root_mounts
              /\ Last(fake_root_mounts').mountpoint = lastCall'.dst
              /\ Last(fake_root_mounts').src = lastCall'.src
        /\ EachAtMostOnce' ]_vars

C16_Witness ==
    /\ result = Some(TRUE)
    /\ Len(fake_root_mounts) = 2
    /\ fake_root_mounts[1].mountpoint = P_du /\ fake_root_mounts[2].mountpoint = P_b
    /\ fake_root_mounts[1].readonly
    /\ fake_root_touchs # <<>>

(***************************************************************************)
(* C17: build_fakeroot terminates: once entered it reaches its return,     *)
(* with the result true or false, whatever the plan and the results of the *)
(* calls; no step waits and no step leads back to an earlier place.        *)
(***************************************************************************)
Rank(place) ==
    CASE place = "parent" -> 0
      [] place = "mkdir_base" -> 1
      [] place = "mount_private" -> 2
      [] place = "mount_tmpfs" -> 3
      [] place = "mkdir" -> 4
      [] place = "touch" -> 5
      [] place = "mount" -> 6
      [] place = "pivot_root" -> 7
      [] place \in {"umount2", "chdir"} -> 8
      [] place = "mount_dot" -> 9
      [] place = "chroot" -> 10
      [] place = "remount_root" -> 11
      [] place = "remount_ro" -> 12
      [] place = "done" -> 13
      [] OTHER -> 0

C17_BuildTerminates ==
    /\ [][ \/ Rank(pc') > Rank(pc)
           \/ (pc' = pc /\ pc \in {"mkdir", "touch", "mount", "remount_ro"} /\ idx' > idx)
           \/ pc' = "parent" ]_vars
    /\ (pc # "parent") ~> (pc = "done" /\ result # None)

C17_Witness ==
    /\ pc = "done" /\ result = Some(TRUE)
    /\ Len(fake_root_mounts) = 2
    /\ fake_root_mounts[2].readonly
    /\ root = "base" /\ cwd = "base"

(***************************************************************************)
(* C18: for every entry whose destination is not the root, the entry's     *)
(* mountpoint_outer occurs in fake_root_mkdirs (entries of fakeroot_mount  *)
(* and fakeroot_filesystem) or in fake_root_touchs (entries of             *)
(* fakeroot_mount_file); so build_fakeroot has issued a mkdir or an open   *)
(* of a mount target before it attaches the mount to it.                   *)
(***************************************************************************)
NotRoot(m) == Parent(m.mountpoint) # None

C18_MountTargetIsCreated ==
    /\ \A i \in 1..Len(fake_root_mounts) :
          LET m == fake_root_mounts[i]
          IN  NotRoot(m) =>
                /\ m.mountpoint_outer \in Range(fake_root_mkdirs) \cup Range(fake_root_touchs)
                /\ m.is_special_fs => m.mountpoint_outer \in Range(fake_root_mkdirs)
    /\ (~panicked /\ lastCall.op \in {"mount", "filesystem"} /\ NotRoot(Last(fake_root_mounts)))
          => Last(fake_root_mkdirs) = Last(fake_root_mounts).mountpoint_outer
    /\ (~panicked /\ lastCall.op = "mount_file" /\ NotRoot(Last(fake_root_mounts)))
          => Last(fake_root_touchs) = Last(fake_root_mounts).mountpoint_outer
    /\ \A k \in 1..Len(log) :
          (log[k].site = "mounts" /\ NotRoot(fake_root_mounts[log[k].i])) =>
              \E j \in 1..(k - 1) :
                  /\ log[j].site \in {"mkdirs", "touchs"}
                  /\ log[j].target = log[k].target

C18_Witness ==
    /\ Len(fake_root_mounts) = 2
    /\ lastCall.op = "mount_file"
    /\ fake_root_mounts[1].mountpoint = P_b
    /\ fake_root_mounts[2].mountpoint = P_du
    /\ log # <<>> /\ Last(log).site = "mounts" /\ Last(log).i = 2

(***************************************************************************)
(* C19: the registry only appends: a successful fakeroot_mount,            *)
(* fakeroot_mount_file or fakeroot_filesystem appends one entry to         *)
(* fake_root_mounts; no step removes, reorders or changes an element of    *)
(* fake_root_mounts, fake_root_mkdirs or fake_root_touchs; a registration  *)
(* leaves fake_root_base alone; fake_root_touchs grows by one in           *)
(* fakeroot_mount_file and is left alone by every other call.              *)
(***************************************************************************)
IsPrefix(s, t) == Len(s) <= Len(t) /\ SubSeq(t, 1, Len(s)) = s

Registered ==
    (Called("mount") \/ Called("mount_file") \/ Called("filesystem")) /\ ~panicked'

C19_RegistryAppendOnly ==
    [][ /\ IsPrefix(fake_root_mounts, fake_root_mounts')
        /\ IsPrefix(fake_root_mkdirs, fake_root_mkdirs')
        /\ IsPrefix(fake_root_touchs, fake_root_touchs')
        /\ Registered =>
              /\ Len(fake_root_mounts') = Len(fake_root_mounts) + 1
              /\ fake_root_base' = fake_root_base
              /\ Len(fake_root_touchs') =
                    Len(fake_root_touchs) + (IF Called("mount_file") THEN 1 ELSE 0)
        /\ fake_root_mounts' # fake_root_mounts => Registered
        /\ fake_root_mkdirs' # fake_root_mkdirs => Registered
        /\ fake_root_touchs' # fake_root_touchs => (Registered /\ Called("mount_file")) ]_vars

C19_Witness ==
    /\ pc = "parent" /\ ~panicked
    /\ lastCall.op = "filesystem"
    /\ Len(fake_root_mounts) = 2
    /\ Len(fake_root_touchs) = 1
    /\ Len(fake_root_mkdirs) >= 2

====
